---------------------------- MODULE Spec2Model ----------------------------
(***************************************************************************)
(* Model of the Timeline aggregate of src/src/video/timeline.py, of the    *)
(* renders built from it and of the command that fills it.                 *)
(*                                                                         *)
(* Times, durations and layers are integers: one unit is one second, the   *)
(* model works on the grid of whole seconds.  An id is the string the code *)
(* builds, f"{prefix}_{counter:04d}".                                      *)
(*                                                                         *)
(* Spec        the life of one Timeline object: adders, remove_item,       *)
(*             clear, get_total_duration, and a save/load through to_dict  *)
(*             and from_dict.                                              *)
(* SpecQuery   get_items_at, get_items_in_range, overlaps and              *)
(*             get_total_duration applied to bounded item lists.           *)
(* SpecSort    sort_by_layer and sort_by_time applied to bounded lists.    *)
(* SpecRemove  remove_item applied to bounded lists that may hold an id    *)
(*             more than once.                                             *)
(* SpecSerial  to_dict and from_dict applied to bounded Timelines.          *)
(* SpecRender  render_from_timeline and render_preview of                  *)
(*             src/src/video/renderer.py applied to bounded Timelines: a   *)
(*             render is the list of clips it composites, bottom first,    *)
(*             or the exception that ends it.                              *)
(* SpecTyped   the typed adders and get_items_at on what they stored.      *)
(* SpecGenerate the generate command of src/main.py, step by step.         *)
(* SpecAdd    add_item handed items with fades.                           *)
(* SpecLoad   from_dict handed dicts with malformed entries.              *)
(* SpecFrame  every read-only operation applied to bounded Timelines.     *)
(***************************************************************************)
EXTENDS Integers, Sequences, FiniteSets, TLC

VARIABLES items, id_counter, op, ret, generated, run

vars == <<items, id_counter, op, ret, generated, run>>

(***************************************************************************)
(* Bounds                                                                  *)
(***************************************************************************)
\* Spec: items in the Timeline, durations handed to the adders (add_sfx sets
\* its own), ids generated between two clears.  Every item starts at 0.
MaxItems == 2
MaxDur == 0
MaxCounter == 2
\* SpecQuery, SpecRemove: items in the list, their start times and durations.
MaxQueryItems == 3
MaxQueryStart == 1
MaxQueryDur == 1
\* SpecSort: items in the list.
MaxSortItems == 4
\* SpecSerial: items in the Timeline that is saved and loaded.
MaxSerialItems == 2
\* SpecRender: items in the rendered Timeline, seconds of audio in a source
\* file, seconds a BGM item lasts.
MaxRenderItems == 2
MaxAudioLen == 2
MaxRenderDur == 3
\* SpecTyped: calls of typed adders, seconds each added item lasts.
MaxTypedItems == 3
TypedDur == 2
\* SpecGenerate: lines of the script, seconds of pause after a line.
MaxLines == 2
MaxPause == 1
\* SpecAdd: items handed to add_item, seconds of a fade.
MaxAddItems == 2
MaxFade == 1
\* SpecFrame: items in the Timeline that is queried.
MaxFrameItems == 2

Times == {0}
Durations == 0..MaxDur
QueryStarts == 0..MaxQueryStart
QueryDurations == 0..MaxQueryDur
QueryTimes == 0..(MaxQueryStart + MaxQueryDur)

(***************************************************************************)
(* ItemType and TimelineItem                                               *)
(***************************************************************************)
ItemType == {"dialogue", "background", "character", "bgm", "sfx", "transition"}

None == "None"

\* A call that ends in an exception instead of returning.
Raised(exception) == [status |-> exception]

\* f"{n:04d}"
Pad4(n) ==
    IF n < 10 THEN "000" \o ToString(n)
    ELSE IF n < 100 THEN "00" \o ToString(n)
    ELSE IF n < 1000 THEN "0" \o ToString(n)
    ELSE ToString(n)

\* The string _generate_id returns once the counter has the value n.
FormatId(prefix, n) == prefix \o "_" \o Pad4(n)

TimelineItem(id, type, start_time, duration, layer) ==
    [id |-> id, type |-> type, start_time |-> start_time,
     duration |-> duration, layer |-> layer]

end_time(item) == item.start_time + item.duration

overlaps_one_sided(self, other) ==
    /\ self.start_time < end_time(other)
    /\ other.start_time <= end_time(self)

overlaps(self, other) ==
    /\ self.start_time < end_time(other)
    /\ other.start_time < end_time(self)

(***************************************************************************)
(* Timeline: construction and id generation                                *)
(***************************************************************************)
\* No generate command is running.
Idle == [pc |-> "idle"]

Init ==
    /\ items = <<>>
    /\ id_counter = 0
    /\ op = [name |-> "init", args |-> <<>>]
    /\ ret = None
    /\ generated = {}
    /\ run = Idle

\* _generate_id: the counter after the call.
SameCounter(counter) == counter

NextCounter(counter) == counter + 1

\* _generate_id: the id returned by a call made when the counter is `counter`.
generate_id(prefix, counter) == FormatId(prefix, NextCounter(counter))

add_item_regenerating(its, counter, item) ==
    LET stored == [item EXCEPT !.id = generate_id(item.type, counter)]
    IN [item |-> stored,
        items |-> Append(its, stored),
        counter |-> NextCounter(counter),
        generated |-> {NextCounter(counter)}]

\* add_item applied to the list `its` with counter `counter`:
\* the item as stored, the new list and the new counter.
add_item(its, counter, item) ==
    LET stored == IF item.id = ""
                  THEN [item EXCEPT !.id = generate_id(item.type, counter)]
                  ELSE item
    IN [item |-> stored,
        items |-> Append(its, stored),
        counter |-> IF item.id = "" THEN NextCounter(counter) ELSE counter,
        generated |-> IF item.id = "" THEN {NextCounter(counter)} ELSE {}]


\* A typed adder: it takes an id from _generate_id and hands the item to
\* add_item, which finds the id set and leaves the counter alone.
typed_add(its, counter, prefix, type, start_time, duration, layer) ==
    LET id == generate_id(prefix, counter)
        r == add_item(its, NextCounter(counter),
                      TimelineItem(id, type, start_time, duration, layer))
    IN [r EXCEPT !.generated = @ \cup {NextCounter(counter)}]

DialogueLayer == 10
BackgroundLayer == 0
CharacterLayer == 5
BgmLayer == 0
SfxLayer == 1
SfxDuration == 1

add_dialogue_at_character_layer(its, counter, start_time, duration) ==
    typed_add(its, counter, "dialogue", "dialogue", start_time, duration,
              CharacterLayer)

add_dialogue(its, counter, start_time, duration) ==
    typed_add(its, counter, "dialogue", "dialogue", start_time, duration,
              DialogueLayer)

add_background(its, counter, start_time, duration) ==
    typed_add(its, counter, "bg", "background", start_time, duration,
              BackgroundLayer)

add_character(its, counter, start_time, duration) ==
    typed_add(its, counter, "char", "character", start_time, duration,
              CharacterLayer)

add_bgm(its, counter, start_time, duration) ==
    typed_add(its, counter, "bgm", "bgm", start_time, duration, BgmLayer)

add_sfx(its, counter, start_time) ==
    typed_add(its, counter, "sfx", "sfx", start_time, SfxDuration, SfxLayer)

(***************************************************************************)
(* Timeline: queries                                                       *)
(***************************************************************************)
\* item.start_time <= time < item.end_time
ActiveAt_closed(item, time) ==
    item.start_time <= time /\ time <= end_time(item)

ActiveAt(item, time) ==
    item.start_time <= time /\ time < end_time(item)

\* [item for item in its if item.start_time <= time < item.end_time]
RECURSIVE get_items_at_reversed(_, _)
get_items_at_reversed(its, time) ==
    IF its = <<>> THEN <<>>
    ELSE get_items_at_reversed(Tail(its), time)
         \o (IF ActiveAt(Head(its), time) THEN <<Head(its)>> ELSE <<>>)

RECURSIVE get_items_at(_, _)
get_items_at(its, time) ==
    IF its = <<>> THEN <<>>
    ELSE LET item == Head(its)
             rest == get_items_at(Tail(its), time)
         IN IF ActiveAt(item, time) THEN <<item>> \o rest ELSE rest

\* item.start_time < end and item.end_time > start
InRange_touching(item, start, end) ==
    item.start_time < end /\ end_time(item) >= start

InRange(item, start, end) ==
    item.start_time < end /\ end_time(item) > start

\* [item for item in its if item.start_time < end and item.end_time > start]
RECURSIVE get_items_in_range(_, _, _)
get_items_in_range(its, start, end) ==
    IF its = <<>> THEN <<>>
    ELSE LET item == Head(its)
             rest == get_items_in_range(Tail(its), start, end)
         IN IF InRange(item, start, end) THEN <<item>> \o rest ELSE rest

\* max(item.end_time for item in its), its not empty
LastEndTime(its) == end_time(its[Len(its)])

RECURSIVE MaxEndTime(_)
MaxEndTime(its) ==
    IF Len(its) = 1 THEN end_time(its[1])
    ELSE LET m == MaxEndTime(Tail(its))
         IN IF m > end_time(Head(its)) THEN m ELSE end_time(Head(its))

get_total_duration(its) ==
    IF its = <<>> THEN 0 ELSE MaxEndTime(its)

\* The sort key: lambda x: x.layer, lambda x: x.start_time.
KeyOf(x, key) == IF key = "layer" THEN x.layer ELSE x.start_time

\* sorted(): stable, an element goes behind the elements whose key is not
\* greater than its own.
RECURSIVE InsertBeforeEqual(_, _, _)
InsertBeforeEqual(sorted, item, key) ==
    IF sorted = <<>> THEN <<item>>
    ELSE IF KeyOf(Head(sorted), key) < KeyOf(item, key)
         THEN <<Head(sorted)>> \o InsertBeforeEqual(Tail(sorted), item, key)
         ELSE <<item>> \o sorted

RECURSIVE InsertByKey(_, _, _)
InsertByKey(sorted, item, key) ==
    IF sorted = <<>> THEN <<item>>
    ELSE IF KeyOf(Head(sorted), key) <= KeyOf(item, key)
         THEN <<Head(sorted)>> \o InsertByKey(Tail(sorted), item, key)
         ELSE <<item>> \o sorted

RECURSIVE SortedByKey(_, _)
SortedByKey(its, key) ==
    IF its = <<>> THEN <<>>
    ELSE InsertByKey(SortedByKey(SubSeq(its, 1, Len(its) - 1), key),
                     its[Len(its)], key)

sort_by_layer(its) == SortedByKey(its, "layer")

sort_by_time(its) == SortedByKey(its, "start_time")

(***************************************************************************)
(* Timeline: removal, clear, serialization                                 *)
(***************************************************************************)
\* The index of the first item of its[i..] whose id is item_id, 0 if none.
RECURSIVE FirstIndexOf(_, _, _)
FirstIndexOf(its, item_id, i) ==
    IF i > Len(its) THEN 0
    ELSE IF its[i].id = item_id THEN i
    ELSE FirstIndexOf(its, item_id, i + 1)

Pop(its, i) == SubSeq(its, 1, i - 1) \o SubSeq(its, i + 1, Len(its))

RECURSIVE WithoutId(_, _)
WithoutId(its, item_id) ==
    IF its = <<>> THEN <<>>
    ELSE IF Head(its).id = item_id THEN WithoutId(Tail(its), item_id)
    ELSE <<Head(its)>> \o WithoutId(Tail(its), item_id)

remove_every_match(its, item_id) ==
    [items |-> WithoutId(its, item_id),
     ret |-> FirstIndexOf(its, item_id, 1) # 0]

remove_item(its, item_id) ==
    LET i == FirstIndexOf(its, item_id, 1)
    IN IF i = 0 THEN [items |-> its, ret |-> FALSE]
       ELSE [items |-> Pop(its, i), ret |-> TRUE]

\* Values of the optional fields.  A path is a pathlib.Path in an item and a
\* str in the dict to_dict builds; a position is a tuple.
PyNone == [py |-> "None"]
PyPath(s) == [py |-> "Path", v |-> s]
PyStr(s) == [py |-> "str", v |-> s]
PyTuple(xs) == [py |-> "tuple", v |-> xs]

\* Python's truth value of an optional field.
Truthy(x) ==
    /\ x.py # "None"
    /\ x.py \in {"str", "tuple"} => Len(x.v) > 0

\* to_dict's entry for one item: model_dump(), then audio_path and
\* image_path replaced by str(path), or None.
PathFields == {"audio_path", "image_path"}

ItemToDict(item) ==
    [f \in DOMAIN item |->
        IF f \in PathFields
        THEN IF Truthy(item[f]) THEN PyStr(item[f].v) ELSE PyNone
        ELSE item[f]]

\* from_dict's keyword arguments for one entry: Path(...) of a truthy path,
\* tuple(...) of a truthy position.
ItemFromDict(item_data) ==
    [f \in DOMAIN item_data |->
        IF f \in PathFields /\ Truthy(item_data[f])
        THEN PyPath(item_data[f].v)
        ELSE IF f = "position" /\ Truthy(item_data[f])
        THEN PyTuple(item_data[f].v)
        ELSE item_data[f]]

to_dict_unsorted(its) ==
    [total_duration |-> get_total_duration(its),
     items |-> [k \in DOMAIN its |-> ItemToDict(its[k])]]

to_dict(its) ==
    LET sorted == sort_by_time(its)
    IN [total_duration |-> get_total_duration(its),
        items |-> [k \in DOMAIN sorted |-> ItemToDict(sorted[k])]]

\* TimelineItem(**item_data) raises ValidationError for an entry that lacks
\* a field without default or whose type is no ItemType.
RequiredFields == {"id", "type", "start_time", "duration"}

Malformed(item_data) ==
    \/ ~(RequiredFields \subseteq DOMAIN item_data)
    \/ item_data.type \notin ItemType

RECURSIVE FromItems_skipping(_, _)
FromItems_skipping(listed, timeline) ==
    IF listed = <<>> THEN timeline
    ELSE IF Malformed(Head(listed))
    THEN FromItems_skipping(Tail(listed), timeline)
    ELSE LET r == add_item(timeline.items, timeline.counter,
                           ItemFromDict(Head(listed)))
         IN FromItems_skipping(Tail(listed),
                      [items |-> r.items, counter |-> r.counter,
                       generated |-> timeline.generated \cup r.generated])

\* from_dict: a new Timeline, every listed item handed to add_item in turn;
\* the exception of a malformed entry ends the call.
RECURSIVE FromItems(_, _)
FromItems(listed, timeline) ==
    IF listed = <<>> THEN timeline
    ELSE IF Malformed(Head(listed))
    THEN Raised("ValidationError")
    ELSE LET r == add_item(timeline.items, timeline.counter,
                           ItemFromDict(Head(listed)))
         IN FromItems(Tail(listed),
                      [items |-> r.items, counter |-> r.counter,
                       generated |-> timeline.generated \cup r.generated])

from_dict(data) ==
    FromItems(data.items, [items |-> <<>>, counter |-> 0, generated |-> {}])

(***************************************************************************)
(* Inputs                                                                  *)
(***************************************************************************)
\* Ids a caller hands to add_item: none, one of its own, one that looks
\* like a generated id.
CallerIds == {"", "a", FormatId("dialogue", 1)}
CallerType == "transition"
CallerLayer == 3
SortLayers == {0, 5, 10}
RemoveIds == {"a", "b"}
MissingId == "missing"

Called(name, args) ==
    /\ op' = [name |-> name, args |-> args]
    /\ UNCHANGED run

\* The state after an adder that returned r.
Added(r) ==
    /\ items' = r.items
    /\ id_counter' = r.counter
    /\ generated' = generated \cup r.generated
    /\ ret' = r.item

(***************************************************************************)
(* Operations on the Timeline                                              *)
(***************************************************************************)
AddItem ==
    \E id \in CallerIds, s \in Times, d \in Durations :
        /\ Len(items) < MaxItems
        /\ id = "" => id_counter < MaxCounter
        /\ Added(add_item(items, id_counter,
                          TimelineItem(id, CallerType, s, d, CallerLayer)))
        /\ Called("add_item", <<id, s, d>>)

AddDialogue ==
    \E s \in Times, d \in Durations :
        /\ Len(items) < MaxItems
        /\ id_counter < MaxCounter
        /\ Added(add_dialogue(items, id_counter, s, d))
        /\ Called("add_dialogue", <<s, d>>)

AddBackground ==
    \E s \in Times, d \in Durations :
        /\ Len(items) < MaxItems
        /\ id_counter < MaxCounter
        /\ Added(add_background(items, id_counter, s, d))
        /\ Called("add_background", <<s, d>>)

AddCharacter ==
    \E s \in Times, d \in Durations :
        /\ Len(items) < MaxItems
        /\ id_counter < MaxCounter
        /\ Added(add_character(items, id_counter, s, d))
        /\ Called("add_character", <<s, d>>)

AddBgm ==
    \E s \in Times, d \in Durations :
        /\ Len(items) < MaxItems
        /\ id_counter < MaxCounter
        /\ Added(add_bgm(items, id_counter, s, d))
        /\ Called("add_bgm", <<s, d>>)

AddSfx ==
    \E s \in Times :
        /\ Len(items) < MaxItems
        /\ id_counter < MaxCounter
        /\ Added(add_sfx(items, id_counter, s))
        /\ Called("add_sfx", <<s>>)

RemoveItem ==
    \E item_id \in {items[i].id : i \in DOMAIN items} \cup {MissingId} :
        LET r == remove_item(items, item_id)
        IN /\ items' = r.items
           /\ ret' = r.ret
           /\ Called("remove_item", <<item_id>>)
           /\ UNCHANGED <<id_counter, generated>>

Clear_keeps_counter ==
    /\ items' = <<>>
    /\ ret' = None
    /\ Called("clear", <<>>)
    /\ UNCHANGED <<id_counter, generated>>

Clear ==
    /\ items' = <<>>
    /\ id_counter' = 0
    /\ generated' = {}
    /\ ret' = None
    /\ Called("clear", <<>>)

GetTotalDuration ==
    /\ ret' = get_total_duration(items)
    /\ Called("get_total_duration", <<>>)
    /\ UNCHANGED <<items, id_counter, generated>>

\* Save and load: the Timeline under study becomes
\* Timeline.from_dict(timeline.to_dict()).
FromDict ==
    LET t == from_dict(to_dict(items))
    IN /\ items' = t.items
       /\ id_counter' = t.counter
       /\ generated' = t.generated
       /\ ret' = None
       /\ Called("from_dict", <<>>)

Next ==
    \/ AddItem
    \/ AddDialogue
    \/ AddBackground
    \/ AddCharacter
    \/ AddBgm
    \/ AddSfx
    \/ RemoveItem
    \/ Clear
    \/ GetTotalDuration
    \/ FromDict

Spec == Init /\ [][Next]_vars

(***************************************************************************)
(* The queries, applied to bounded item lists                              *)
(***************************************************************************)
ListsOf(S, n) == UNION {[1..k -> S] : k \in 0..n}

\* A Timeline to which the listed items were handed by add_item.
Built(listed) ==
    LET t == from_dict([items |-> listed])
    IN /\ items = t.items
       /\ id_counter = t.counter
       /\ generated = t.generated
       /\ op = [name |-> "init", args |-> <<>>]
       /\ ret = None
       /\ run = Idle

QueryItems ==
    {TimelineItem("", CallerType, s, d, CallerLayer) :
        s \in QueryStarts, d \in QueryDurations}

InitQuery == \E listed \in ListsOf(QueryItems, MaxQueryItems) : Built(listed)

GetItemsAt ==
    \E time \in QueryTimes :
        /\ ret' = get_items_at(items, time)
        /\ Called("get_items_at", <<time>>)
        /\ UNCHANGED <<items, id_counter, generated>>

GetItemsInRange ==
    \E start \in QueryTimes, end \in QueryTimes :
        /\ ret' = get_items_in_range(items, start, end)
        /\ Called("get_items_in_range", <<start, end>>)
        /\ UNCHANGED <<items, id_counter, generated>>

Overlaps ==
    \E i \in DOMAIN items, j \in DOMAIN items :
        /\ ret' = overlaps(items[i], items[j])
        /\ Called("overlaps", <<i, j>>)
        /\ UNCHANGED <<items, id_counter, generated>>

NextQuery ==
    \/ GetItemsAt
    \/ GetItemsInRange
    \/ Overlaps
    \/ GetTotalDuration

SpecQuery == InitQuery /\ [][NextQuery]_vars

(***************************************************************************)
(* The sorts, applied to bounded item lists                                *)
(***************************************************************************)
SortItems ==
    {TimelineItem("", CallerType, s, 1, l) :
        s \in QueryStarts, l \in SortLayers}

InitSort == \E listed \in ListsOf(SortItems, MaxSortItems) : Built(listed)

SortByLayer ==
    /\ ret' = sort_by_layer(items)
    /\ Called("sort_by_layer", <<>>)
    /\ UNCHANGED <<items, id_counter, generated>>

SortByTime ==
    /\ ret' = sort_by_time(items)
    /\ Called("sort_by_time", <<>>)
    /\ UNCHANGED <<items, id_counter, generated>>

NextSort ==
    \/ SortByLayer
    \/ SortByTime

SpecSort == InitSort /\ [][NextSort]_vars

(***************************************************************************)
(* remove_item, applied to bounded item lists with caller-supplied ids     *)
(***************************************************************************)
RemoveItems ==
    {TimelineItem(id, CallerType, s, 1, CallerLayer) :
        id \in RemoveIds, s \in QueryStarts}

InitRemove == \E listed \in ListsOf(RemoveItems, MaxQueryItems) : Built(listed)

NextRemove == RemoveItem

SpecRemove == InitRemove /\ [][NextRemove]_vars

(***************************************************************************)
(* to_dict and from_dict, applied to bounded Timelines                     *)
(***************************************************************************)
SerialIds == {"", "a"}
SerialPositions == {PyNone, PyTuple(<<0, 0>>)}
SerialPaths == {PyPath("bg.png")}

SerialItems ==
    {[id |-> id, type |-> "background", start_time |-> s, duration |-> 1,
      layer |-> BackgroundLayer, position |-> p, image_path |-> path] :
        id \in SerialIds, s \in QueryStarts,
        p \in SerialPositions, path \in SerialPaths}

InitSerial == \E listed \in ListsOf(SerialItems, MaxSerialItems) : Built(listed)

ToDict ==
    /\ ret' = to_dict(items)
    /\ Called("to_dict", <<>>)
    /\ UNCHANGED <<items, id_counter, generated>>

\* The dict to_dict builds, with the ids of the entries at `blank` emptied.
Blanked(data, blank) ==
    [data EXCEPT !.items =
        [k \in DOMAIN data.items |->
            IF k \in blank THEN [data.items[k] EXCEPT !.id = ""]
            ELSE data.items[k]]]

\* Timeline.from_dict(data) for a dict some of whose entries carry no id.
LoadDict ==
    \E blank \in SUBSET DOMAIN items :
        LET data == Blanked(to_dict(items), blank)
            t == from_dict(data)
        IN /\ items' = t.items
           /\ id_counter' = t.counter
           /\ generated' = t.generated
           /\ ret' = None
           /\ Called("from_dict", <<data>>)

\* The dict to_dict builds, with the duration of the entries at `bad`
\* missing.
Corrupted(data, bad) ==
    [data EXCEPT !.items =
        [k \in DOMAIN data.items |->
            IF k \in bad
            THEN [f \in DOMAIN data.items[k] \ {"duration"} |-> data.items[k][f]]
            ELSE data.items[k]]]

\* Timeline.from_dict(data) for a dict some of whose entries are malformed:
\* the Timeline it returns replaces the one under study, an exception
\* leaves that one as it is.
LoadCorrupted ==
    \E bad \in SUBSET DOMAIN items :
        LET data == Corrupted(to_dict(items), bad)
            t == from_dict(data)
        IN /\ IF "status" \in DOMAIN t
              THEN /\ ret' = t
                   /\ UNCHANGED <<items, id_counter, generated>>
              ELSE /\ items' = t.items
                   /\ id_counter' = t.counter
                   /\ generated' = t.generated
                   /\ ret' = [status |-> "ok"]
           /\ Called("from_dict", <<data>>)

NextLoad == LoadCorrupted

SpecLoad == InitSerial /\ [][NextLoad]_vars

NextSerial ==
    \/ ToDict
    \/ FromDict
    \/ LoadDict

SpecSerial == InitSerial /\ [][NextSerial]_vars

(***************************************************************************)
(* VideoRenderer (src/src/video/renderer.py): what a render is built from  *)
(***************************************************************************)
\* The files on disk: one image, and one audio file for every length.
AudioFiles == [n \in 1..MaxAudioLen |-> "a" \o ToString(n) \o ".wav"]
ImageFiles == {"pic.png"}
ExistingFiles == ImageFiles \cup {AudioFiles[n] : n \in DOMAIN AudioFiles}

\* `item.xxx_path and item.xxx_path.exists()`
exists(path) == Truthy(path) /\ path.v \in ExistingFiles

\* AudioFileClip(str(path)).duration
AudioDuration(path) == CHOOSE n \in DOMAIN AudioFiles : AudioFiles[n] = path.v

get_items_by_type(its, item_type) ==
    SelectSeq(its, LAMBDA item : item.type = item_type)

Min(a, b) == IF a < b THEN a ELSE b

\* clip.subclip(0, t_end) of a clip that holds `length` seconds.
subclip(length, t_end) == Min(length, t_end)

\* The BGM element of an item of duration d whose source holds a seconds.
loops_needed_floor(d, a) == d \div a

loops_needed(d, a) == (d \div a) + 1

bgm_length(a, d) ==
    IF a < d THEN subclip(loops_needed(d, a) * a, d)
    ELSE IF a > d THEN subclip(a, d)
    ELSE a

BgmVolume == 15
FullVolume == 100

VideoClip(kind, item, start, duration, fade_in, fade_out) ==
    [kind |-> kind, item |-> item, start |-> start, duration |-> duration,
     fade_in |-> fade_in, fade_out |-> fade_out]

AudioClip(kind, item, start, duration, fade_in, fade_out, volume) ==
    [kind |-> kind, item |-> item, start |-> start, duration |-> duration,
     fade_in |-> fade_in, fade_out |-> fade_out, volume |-> volume]

\* item.flip_horizontal: TimelineItem declares no such field, and the model
\* drops the keyword main.py hands to add_character.
HasAttr(item, name) == name \in DOMAIN item

background_clips_when_none_shown(its, scrolling_text, total_duration) ==
    IF Truthy(scrolling_text)
    THEN <<VideoClip("scrolling_text", "", 0, total_duration, 0, 0)>>
    ELSE LET bg_items == get_items_by_type(its, "background")
             shown == SelectSeq(bg_items,
                                LAMBDA item : exists(item.image_path))
         IN IF shown # <<>>
            THEN [k \in DOMAIN shown |->
                     VideoClip("background", shown[k].id,
                               shown[k].start_time, shown[k].duration, 0, 0)]
            ELSE <<VideoClip("color", "", 0, total_duration, 0, 0)>>

\* The background pass of render_from_timeline.
background_clips(its, scrolling_text, total_duration) ==
    IF Truthy(scrolling_text)
    THEN <<VideoClip("scrolling_text", "", 0, total_duration, 0, 0)>>
    ELSE LET bg_items == get_items_by_type(its, "background")
             shown == SelectSeq(bg_items,
                                LAMBDA item : exists(item.image_path))
         IN IF bg_items # <<>>
            THEN [k \in DOMAIN shown |->
                     VideoClip("background", shown[k].id,
                               shown[k].start_time, shown[k].duration, 0, 0)]
            ELSE <<VideoClip("color", "", 0, total_duration, 0, 0)>>

\* The character pass: the items it builds a clip for.
character_items(its) ==
    SelectSeq(get_items_by_type(its, "character"),
              LAMBDA item : exists(item.image_path))

character_clips(its) ==
    LET shown == character_items(its)
    IN [k \in DOMAIN shown |->
           VideoClip("character", shown[k].id, shown[k].start_time,
                     shown[k].duration, shown[k].fade_in, shown[k].fade_out)
           @@ [flip_horizontal |-> shown[k].flip_horizontal]]

\* The dialogue pass: subtitles and voices.
subtitle_clips(its) ==
    LET shown == SelectSeq(get_items_by_type(its, "dialogue"),
                           LAMBDA item : Truthy(item.text))
    IN [k \in DOMAIN shown |->
           VideoClip("subtitle", shown[k].id, shown[k].start_time,
                     shown[k].duration, 0, 0)]

voice_clips(its) ==
    LET heard == SelectSeq(get_items_by_type(its, "dialogue"),
                           LAMBDA item : exists(item.audio_path))
    IN [k \in DOMAIN heard |->
           AudioClip("dialogue", heard[k].id, heard[k].start_time,
                     AudioDuration(heard[k].audio_path), 0, 0, FullVolume)]

bgm_clips(its) ==
    LET heard == SelectSeq(get_items_by_type(its, "bgm"),
                           LAMBDA item : exists(item.audio_path))
    IN [k \in DOMAIN heard |->
           AudioClip("bgm", heard[k].id, heard[k].start_time,
                     bgm_length(AudioDuration(heard[k].audio_path),
                                heard[k].duration),
                     heard[k].fade_in, heard[k].fade_out, BgmVolume)]

sfx_clips(its) ==
    LET heard == SelectSeq(get_items_by_type(its, "sfx"),
                           LAMBDA item : exists(item.audio_path))
    IN [k \in DOMAIN heard |->
           AudioClip("sfx", heard[k].id, heard[k].start_time,
                     AudioDuration(heard[k].audio_path), 0, 0, FullVolume)]

\* render_from_timeline: the clips handed to CompositeVideoClip, bottom
\* first, the clips handed to CompositeAudioClip and the duration set on the
\* result; or the exception that ends the call.
render_from_timeline(its, scrolling_text) ==
    LET total_duration == get_total_duration(its)
    IN IF \E k \in DOMAIN character_items(its) :
              ~HasAttr(character_items(its)[k], "flip_horizontal")
       THEN Raised("AttributeError")
       ELSE [status |-> "ok",
             video_clips |->
                 background_clips(its, scrolling_text, total_duration)
                 \o character_clips(its) \o subtitle_clips(its),
             audio_clips |->
                 voice_clips(its) \o bgm_clips(its) \o sfx_clips(its),
             duration |-> total_duration]

\* render_preview: what one item makes the loop do.
PreviewOpens(item) ==
    /\ item.type \in {"background", "character"}
    /\ Truthy(item.image_path)

PreviewDraws(item) ==
    \/ PreviewOpens(item)
    \/ item.type = "dialogue" /\ Truthy(item.text)

\* render_preview: the items drawn on the canvas, bottom first, or the
\* exception Image.open raises for a path that names no file.
render_preview(its, time) ==
    LET sorted == sort_by_layer(get_items_at(its, time))
    IN IF \E k \in DOMAIN sorted :
              PreviewOpens(sorted[k]) /\ ~exists(sorted[k].image_path)
       THEN Raised("FileNotFoundError")
       ELSE LET shown == SelectSeq(sorted, PreviewDraws)
            IN [status |-> "ok",
                drawn |-> [k \in DOMAIN shown |-> shown[k].id]]

(***************************************************************************)
(* The two renders, applied to bounded Timelines                           *)
(***************************************************************************)
MediaItem(type, start_time, duration, layer, image_path, audio_path, text, fade_in, fade_out) ==
    [id |-> "", type |-> type, start_time |-> start_time,
     duration |-> duration, layer |-> layer, image_path |-> image_path,
     audio_path |-> audio_path, text |-> text,
     fade_in |-> fade_in, fade_out |-> fade_out]

RenderStarts == {0, 1}
RenderTimes == {0, 1, 2}
RenderLayers == {0, 10}
RenderImages == {PyNone, PyPath("pic.png"), PyPath("gone.png")}
RenderAudios ==
    {PyPath("gone.wav")} \cup {PyPath(AudioFiles[n]) : n \in DOMAIN AudioFiles}
RenderTexts == {PyNone, PyStr("hi")}
ScrollingTexts == {PyNone, PyStr("script")}
RenderFades == {0, 1}

\* Items that are drawn: backgrounds, characters, subtitles.
VisualItems ==
    {MediaItem(type, s, 1, l, image, PyNone, PyNone, 0, 0) :
        type \in {"background", "character"}, s \in RenderStarts,
        l \in RenderLayers, image \in RenderImages}
    \cup
    {MediaItem("dialogue", s, 1, l, PyNone, PyNone, text, 0, 0) :
        s \in RenderStarts, l \in RenderLayers, text \in RenderTexts}

\* Items that are heard: voices, BGM, sound effects.
AudioItems ==
    {MediaItem("bgm", 0, d, BgmLayer, PyNone, audio, PyNone, 1, 1) :
        d \in 1..MaxRenderDur, audio \in RenderAudios}
    \cup
    {MediaItem("dialogue", 0, 1, DialogueLayer, PyNone, audio, PyNone, 0, 0) :
        audio \in RenderAudios}
    \cup
    {MediaItem("sfx", 0, SfxDuration, SfxLayer, PyNone, audio, PyNone, fade, fade) :
        audio \in RenderAudios, fade \in RenderFades}

InitRender ==
    \E listed \in ListsOf(VisualItems, MaxRenderItems)
                  \cup ListsOf(AudioItems, MaxRenderItems) : Built(listed)

RenderFromTimeline ==
    \E scrolling_text \in ScrollingTexts :
        /\ ret' = render_from_timeline(items, scrolling_text)
        /\ Called("render_from_timeline", <<scrolling_text>>)
        /\ UNCHANGED <<items, id_counter, generated>>

\* render_preview sorts the list get_items_at returned, a new list; sorting
\* the Timeline's own list would reorder the Timeline.
RenderPreview_sorting_timeline ==
    \E time \in RenderTimes :
        /\ ret' = render_preview(items, time)
        /\ items' = sort_by_layer(items)
        /\ Called("render_preview", <<time>>)
        /\ UNCHANGED <<id_counter, generated>>

RenderPreview ==
    \E time \in RenderTimes :
        /\ ret' = render_preview(items, time)
        /\ Called("render_preview", <<time>>)
        /\ UNCHANGED <<items, id_counter, generated>>

NextRender ==
    \/ RenderFromTimeline
    \/ RenderPreview

SpecRender == InitRender /\ [][NextRender]_vars

(***************************************************************************)
(* The generate command (src/main.py)                                      *)
(***************************************************************************)
\* The item an adder stored, with the fields the caller handed over.
\* TimelineItem ignores a keyword it does not declare (flip_horizontal).
WithFields(r, fields) ==
    LET item == r.item @@ fields
    IN [r EXCEPT !.item = item,
                 !.items = [@ EXCEPT ![Len(@)] = item]]

NoMedia ==
    [image_path |-> PyNone, audio_path |-> PyNone, text |-> PyNone,
     fade_in |-> 0, fade_out |-> 0]

\* generate is called: the script file is there or not, it holds `lines`
\* lines, the two characters' images and a BGM file are there or not.
InitGenerate ==
    /\ items = <<>>
    /\ id_counter = 0
    /\ op = [name |-> "init", args |-> <<>>]
    /\ ret = None
    /\ generated = {}
    /\ \E script_exists \in BOOLEAN, lines \in 0..MaxLines,
          reimu_image \in BOOLEAN, marisa_image \in BOOLEAN,
          bgm_file \in BOOLEAN, preview_only \in BOOLEAN :
           run = [pc |-> "start", script_exists |-> script_exists,
                  lines |-> lines, reimu_image |-> reimu_image,
                  marisa_image |-> marisa_image, bgm_file |-> bgm_file,
                  preview_only |-> preview_only, available |-> None,
                  line_index |-> 0, current_time |-> 0, pauses |-> <<>>,
                  render |-> "none", exit_code |-> None]

GenerateCalled(step) ==
    op' = [name |-> "generate", args |-> <<step>>]

\* The script check, the parse and the availability check, up to
\* `timeline = Timeline()`; without the check the command would go on.
CheckService_ignored ==
    /\ run.pc = "start"
    /\ \E available \in BOOLEAN :
        IF ~run.script_exists
        THEN run' = [run EXCEPT !.pc = "exit", !.exit_code = 1]
        ELSE run' = [run EXCEPT !.pc = "lines",
                                !.available = ToString(available)]
    /\ ret' = None
    /\ GenerateCalled("check")
    /\ UNCHANGED <<items, id_counter, generated>>

CheckService ==
    /\ run.pc = "start"
    /\ \E available \in BOOLEAN :
        IF ~run.script_exists
        THEN run' = [run EXCEPT !.pc = "exit", !.exit_code = 1]
        ELSE IF ~available
        THEN run' = [run EXCEPT !.pc = "exit", !.exit_code = 1,
                                !.available = ToString(available)]
        ELSE run' = [run EXCEPT !.pc = "lines",
                                !.available = ToString(available)]
    /\ ret' = None
    /\ GenerateCalled("check")
    /\ UNCHANGED <<items, id_counter, generated>>

\* current_time += duration + line.pause_after
NextTime_no_pause(current_time, duration, pause_after) ==
    current_time + duration

NextTime(current_time, duration, pause_after) ==
    current_time + duration + pause_after

\* One turn of the loop over the lines: the voice is synthesised into a file
\* of `duration` seconds, the characters whose image exists and the dialogue
\* are added, the clock moves on by the duration and the line's pause
\* (run.pauses keeps the pauses of the lines done).
SynthesizeLine ==
    /\ run.pc = "lines"
    /\ run.line_index < run.lines
    /\ \E duration \in 1..MaxAudioLen, pause_after \in 0..MaxPause :
        LET t0 == [items |-> items, counter |-> id_counter, generated |-> {}]
            reimu == WithFields(add_character(t0.items, t0.counter,
                                              run.current_time, duration),
                                [NoMedia EXCEPT !.image_path = PyPath("pic.png")])
            t1 == IF run.reimu_image THEN reimu ELSE t0
            marisa == WithFields(add_character(t1.items, t1.counter,
                                               run.current_time, duration),
                                 [NoMedia EXCEPT !.image_path = PyPath("pic.png")])
            t2 == IF run.marisa_image THEN marisa ELSE t1
            dialogue == WithFields(add_dialogue(t2.items, t2.counter,
                                                run.current_time, duration),
                                   [NoMedia EXCEPT
                                       !.text = PyStr("line"),
                                       !.audio_path = PyPath(AudioFiles[duration])])
        IN /\ items' = dialogue.items
           /\ id_counter' = dialogue.counter
           /\ generated' = generated \cup (1..dialogue.counter)
           /\ ret' = dialogue.item
           /\ run' = [run EXCEPT
                         !.line_index = @ + 1,
                         !.current_time = NextTime(@, duration, pause_after),
                         !.pauses = Append(@, pause_after)]
    /\ GenerateCalled("line")

\* text_to_speech raises (raise_for_status): the exception ends the command.
SynthesisFails ==
    /\ run.pc = "lines"
    /\ run.line_index < run.lines
    /\ run' = [run EXCEPT !.pc = "raised", !.exit_code = 1]
    /\ ret' = Raised("HTTPStatusError")
    /\ GenerateCalled("line")
    /\ UNCHANGED <<items, id_counter, generated>>

\* After the loop: the BGM is added when a BGM file exists, then the preview
\* at 1.0 or the full render with the scrolling script text is made.
Render ==
    /\ run.pc = "lines"
    /\ run.line_index = run.lines
    /\ LET t0 == [items |-> items, counter |-> id_counter]
           bgm == WithFields(add_bgm(t0.items, t0.counter, 0, run.current_time),
                             [NoMedia EXCEPT
                                 !.audio_path = PyPath(AudioFiles[1]),
                                 !.fade_in = 2, !.fade_out = 3])
           t1 == IF run.bgm_file THEN bgm ELSE t0
           result == IF run.preview_only
                     THEN render_preview(t1.items, 1)
                     ELSE render_from_timeline(t1.items, PyStr("script"))
       IN /\ items' = t1.items
          /\ id_counter' = t1.counter
          /\ generated' = generated \cup (1..t1.counter)
          /\ ret' = result
          /\ run' = [run EXCEPT
                        !.render = IF run.preview_only THEN "preview" ELSE "full",
                        !.pc = IF result.status = "ok" THEN "done" ELSE "raised",
                        !.exit_code = IF result.status = "ok" THEN 0 ELSE 1]
    /\ GenerateCalled("render")

NextGenerate ==
    \/ CheckService
    \/ SynthesizeLine
    \/ SynthesisFails
    \/ Render

SpecGenerate == InitGenerate /\ [][NextGenerate]_vars

(***************************************************************************)
(* Properties                                                              *)
(***************************************************************************)
\* The k-th smallest member of a set of indices.
KthOf(S, k) == CHOOSE i \in S : Cardinality({j \in S : j <= i}) = k

\* seq lists exactly the items at the indices S, each once, in the order
\* of the item list.
ListsInOrder(seq, S) ==
    /\ Len(seq) = Cardinality(S)
    /\ \A k \in 1..Len(seq) : seq[k] = items[KthOf(S, k)]

Holds(seq, item) == \E k \in DOMAIN seq : seq[k] = item

\* C1: no two items of the Timeline carry the same id.
C1_UniqueIds ==
    \A i, j \in DOMAIN items : i # j => items[i].id # items[j].id

\* C2: get_items_at(t) returns exactly the items with
\* start_time <= t < start_time + duration, each once, in insertion order.
C2_GetItemsAtExact ==
    op.name = "get_items_at" =>
        LET t == op.args[1]
        IN ListsInOrder(ret,
               {i \in DOMAIN items :
                   /\ items[i].start_time <= t
                   /\ t < items[i].start_time + items[i].duration})

\* get_items_at returned the first and the third of three items and left out
\* the second, which ends at the queried time.
C2_Witness ==
    /\ op.name = "get_items_at"
    /\ Len(items) = 3
    /\ ret = <<items[1], items[3]>>
    /\ items[2].start_time < op.args[1]
    /\ items[2].start_time + items[2].duration = op.args[1]

\* C3 as stated: for every item with start_time = s and duration = d,
\* get_items_at(s) includes the item and get_items_at(s + d) excludes it.
C3_AsStated ==
    op.name = "get_items_at" =>
        \A i \in DOMAIN items :
            /\ op.args[1] = items[i].start_time => Holds(ret, items[i])
            /\ op.args[1] = items[i].start_time + items[i].duration
                   => ~Holds(ret, items[i])

\* C3, amended: for every item with start_time = s and end_time e = s + d,
\* when e > s get_items_at(s) includes the item and get_items_at(e) excludes
\* it; when e <= s (duration 0) no get_items_at(t) includes the item.
C3_HalfOpenBoundary ==
    op.name = "get_items_at" =>
        \A i \in DOMAIN items :
            LET s == items[i].start_time
                e == items[i].start_time + items[i].duration
            IN IF e > s
               THEN /\ op.args[1] = s => Holds(ret, items[i])
                    /\ op.args[1] = e => ~Holds(ret, items[i])
               ELSE ~Holds(ret, items[i])

\* get_items_at(s) for an item of duration 0 starting at s, next to an item of
\* positive duration starting at s: the first is left out, the second is in.
C3_Witness ==
    /\ op.name = "get_items_at"
    /\ \E i, j \in DOMAIN items :
        /\ items[i].start_time = op.args[1]
        /\ items[i].duration = 0
        /\ ~Holds(ret, items[i])
        /\ items[j].start_time = op.args[1]
        /\ items[j].duration > 0
        /\ Holds(ret, items[j])

\* C4: get_items_in_range(start, end) returns exactly the items with
\* start_time < end and end_time > start, in insertion order; an item with
\* end_time = start or start_time = end is excluded.
C4_GetItemsInRangeExact ==
    op.name = "get_items_in_range" =>
        LET start == op.args[1]
            end == op.args[2]
        IN /\ ListsInOrder(ret,
                  {i \in DOMAIN items :
                      /\ items[i].start_time < end
                      /\ items[i].start_time + items[i].duration > start})
           /\ \A i \in DOMAIN items :
                  \/ items[i].start_time + items[i].duration = start
                  \/ items[i].start_time = end
                  => ~Holds(ret, items[i])

\* get_items_in_range(start, end) left out an item that ends at start and an
\* item that starts at end, and returned the item between them.
C4_Witness ==
    /\ op.name = "get_items_in_range"
    /\ Len(items) = 3
    /\ items[1].start_time + items[1].duration = op.args[1]
    /\ items[3].start_time = op.args[2]
    /\ items[3].duration > 0
    /\ ret = <<items[2]>>

\* C5: A.overlaps(B) is true iff A.start_time < B.end_time and
\* B.start_time < A.end_time, and A.overlaps(B) = B.overlaps(A).
C5_OverlapsSymmetric ==
    op.name = "overlaps" =>
        LET A == items[op.args[1]]
            B == items[op.args[2]]
        IN /\ ret = (/\ A.start_time < B.start_time + B.duration
                     /\ B.start_time < A.start_time + A.duration)
           /\ ret = overlaps(B, A)

\* overlaps was asked of two items where the first ends when the second
\* starts: they do not overlap.
C5_Witness ==
    /\ op.name = "overlaps"
    /\ LET A == items[op.args[1]]
           B == items[op.args[2]]
       IN /\ A.duration > 0
          /\ B.duration > 0
          /\ A.start_time + A.duration = B.start_time
          /\ ret = FALSE

\* C6: get_total_duration() returns 0.0 for an empty Timeline and otherwise
\* the maximum end_time over the items in the Timeline, after any sequence
\* of adds, removals and clear.
C6_TotalDurationIsMaxEnd ==
    op.name = "get_total_duration" =>
        IF items = <<>>
        THEN ret = 0
        ELSE /\ \E i \in DOMAIN items :
                    ret = items[i].start_time + items[i].duration
             /\ \A i \in DOMAIN items :
                    items[i].start_time + items[i].duration <= ret

\* get_total_duration returned the end of an item that is not the last of the
\* list and ends later than the one behind it.
C6_Witness ==
    /\ op.name = "get_total_duration"
    /\ Len(items) >= 2
    /\ ret = items[1].start_time + items[1].duration
    /\ ret > items[Len(items)].start_time + items[Len(items)].duration

IdPrefixes == {"dialogue", "bg", "char", "bgm", "sfx"} \cup ItemType

TypedAdders ==
    {"add_dialogue", "add_background", "add_character", "add_bgm", "add_sfx"}

\* The call recorded in o made _generate_id run.
Generates(o) ==
    \/ o.name \in TypedAdders
    \/ o.name = "add_item" /\ o.args[1] = ""

\* C7: between two clear() calls the id counter only increases; a generated
\* id carries a suffix greater than every suffix generated before, whatever
\* the item type; remove_item leaves the counter alone; no generated id is
\* issued twice, also when the item that held it was removed.  (from_dict
\* builds another Timeline object, with a counter of its own.)
C7_CounterOnlyIncreases ==
    [][op'.name \notin {"clear", "from_dict"} =>
          /\ id_counter' >= id_counter
          /\ op'.name = "remove_item" => id_counter' = id_counter
          /\ Generates(op') =>
                \E p \in IdPrefixes, n \in 1..id_counter' :
                    /\ ret'.id = FormatId(p, n)
                    /\ n > id_counter
                    /\ \A h \in generated : h < n
                    /\ \A q \in IdPrefixes, h \in generated :
                           FormatId(q, h) # ret'.id]_vars

\* A second id was generated after the item holding the first one had been
\* removed: suffix 1 was issued and no item carries it.
C7_Witness ==
    /\ Generates(op)
    /\ id_counter = 2
    /\ items = <<ret>>
    /\ generated = {1, 2}
    /\ \A q \in IdPrefixes : FormatId(q, 1) # ret.id

\* C8: remove_item(id) removes only the first item whose id is the argument
\* and returns true, every other item stays, in its order; when no item has
\* the id it returns false and the list is unchanged.
C8_RemoveFirstMatch ==
    [][op'.name = "remove_item" =>
          LET item_id == op'.args[1]
              matches == {i \in DOMAIN items : items[i].id = item_id}
          IN IF matches = {}
             THEN ret' = FALSE /\ items' = items
             ELSE LET first == KthOf(matches, 1)
                  IN /\ ret' = TRUE
                     /\ Len(items') = Len(items) - 1
                     /\ \A i \in 1..(first - 1) : items'[i] = items[i]
                     /\ \A i \in first..Len(items') :
                            items'[i] = items[i + 1]]_vars

\* remove_item returned true and an item with the removed id is still in the
\* list, behind an item with another id.
C8_Witness ==
    /\ op.name = "remove_item"
    /\ ret = TRUE
    /\ Len(items) = 2
    /\ items[1].id # op.args[1]
    /\ items[2].id = op.args[1]

\* C9: after clear() the Timeline has no items, get_total_duration() is 0.0
\* and the id counter has its initial value: the next generated id has the
\* suffix of the first id of a fresh Timeline.
C9_ClearResets ==
    [][/\ op'.name = "clear" => items' = <<>> /\ id_counter' = 0
       /\ op.name = "clear" =>
            /\ op'.name = "get_total_duration" => ret' = 0
            /\ op'.name = "add_dialogue" => ret'.id = "dialogue_0001"
            /\ op'.name = "add_background" => ret'.id = "bg_0001"
            /\ op'.name = "add_character" => ret'.id = "char_0001"
            /\ op'.name = "add_bgm" => ret'.id = "bgm_0001"
            /\ op'.name = "add_sfx" => ret'.id = "sfx_0001"
            /\ op'.name = "add_item" /\ op'.args[1] = ""
                   => ret'.id = "transition_0001"]_vars

\* The Timeline just after clear().
C9_Witness ==
    /\ op.name = "clear"
    /\ items = <<>>
    /\ id_counter = 0

\* sorted is the stable sort of the list its by the key: a permutation of
\* its (whose items differ in their ids) with the keys in non-decreasing
\* order and, among equal keys, the positions in its in increasing order.
StablySorted(sorted, its, key) ==
    /\ Len(sorted) = Len(its)
    /\ \A k \in DOMAIN sorted : \E i \in DOMAIN its : its[i] = sorted[k]
    /\ LET pos == [k \in DOMAIN sorted |->
                      CHOOSE i \in DOMAIN its : its[i] = sorted[k]]
       IN \A k, l \in DOMAIN sorted :
              k < l =>
                  \/ its[pos[k]][key] < its[pos[l]][key]
                  \/ its[pos[k]][key] = its[pos[l]][key] /\ pos[k] < pos[l]

\* C10: sort_by_layer() and sort_by_time() return a permutation of the items
\* in non-decreasing layer (start_time) order, items of equal key in
\* insertion order, and leave the Timeline's item list as it was.
C10_SortsStableNoMutation ==
    [][/\ op'.name = "sort_by_layer" =>
             items' = items /\ StablySorted(ret', items, "layer")
       /\ op'.name = "sort_by_time" =>
             items' = items /\ StablySorted(ret', items, "start_time")]_vars

\* sort_by_layer of items added with the layers 10, 0, 5, 0: the result has
\* the layers 0, 0, 5, 10 and the two items of layer 0 keep their order.
C10_Witness ==
    /\ op.name = "sort_by_layer"
    /\ Len(items) = 4
    /\ items[1].layer = 10 /\ items[2].layer = 0
    /\ items[3].layer = 5 /\ items[4].layer = 0
    /\ ret = <<items[2], items[4], items[3], items[1]>>

\* The place of item i of `its` once the items are put in non-decreasing
\* start_time order, items of equal start_time keeping their order.
RankByTime(its, i) ==
    1 + Cardinality({j \in DOMAIN its :
            \/ its[j].start_time < its[i].start_time
            \/ its[j].start_time = its[i].start_time /\ j < i})

\* The number of entries among the first k of `listed` that carry no id.
EmptyIdsUpTo(listed, k) ==
    Cardinality({j \in 1..k : listed[j].id = ""})

\* C11 as stated: from_dict gives every reconstructed item an id generated by
\* the new Timeline, the counter advancing once per item, and keeps no
\* stored id.
C11_AsStated ==
    (op.name = "from_dict" /\ op.args # <<>>) =>
        LET listed == op.args[1].items
        IN /\ id_counter = Len(listed)
           /\ \A k \in DOMAIN listed :
                  items[k].id = FormatId(listed[k].type, k)

\* C11, amended: from_dict hands every entry to add_item, which keeps a
\* non-empty stored id without touching the counter and generates an id,
\* advancing the counter once, only for an entry whose stored id is empty.
C11_StoredIdsKept ==
    (op.name = "from_dict" /\ op.args # <<>>) =>
        LET listed == op.args[1].items
        IN /\ Len(items) = Len(listed)
           /\ id_counter = EmptyIdsUpTo(listed, Len(listed))
           /\ \A k \in DOMAIN listed :
                  items[k].id =
                      IF listed[k].id # "" THEN listed[k].id
                      ELSE FormatId(listed[k].type, EmptyIdsUpTo(listed, k))

\* from_dict of two entries, the first with the stored id "a", the second
\* with none: the first keeps "a", the second gets the first generated id.
C11_Witness ==
    /\ op.name = "from_dict"
    /\ op.args # <<>>
    /\ Len(items) = 2
    /\ op.args[1].items[1].id = "a"
    /\ op.args[1].items[2].id = ""
    /\ items[1].id = "a"
    /\ items[2].id = FormatId("background", 1)
    /\ id_counter = 1

\* C12: from_dict(to_dict(T)) has as many items as T; its k-th item has the
\* type, start_time, duration and position of the k-th item of T in
\* ascending start_time order, and every item has a non-empty id.
C12_RoundTrip ==
    [][(op'.name = "from_dict" /\ op'.args = <<>>) =>
          /\ Len(items') = Len(items)
          /\ \A i \in DOMAIN items :
                 LET r == items'[RankByTime(items, i)]
                 IN /\ r.type = items[i].type
                    /\ r.start_time = items[i].start_time
                    /\ r.duration = items[i].duration
                    /\ r.position = items[i].position
          /\ \A k \in DOMAIN items' : items'[k].id # ""]_vars

\* A saved and loaded Timeline of two items in start_time order, the later
\* one with the position (0, 0), the earlier with none, both with their
\* image path.
C12_Witness ==
    /\ op.name = "from_dict"
    /\ op.args = <<>>
    /\ Len(items) = 2
    /\ items[1].start_time < items[2].start_time
    /\ items[1].position = PyNone
    /\ items[2].position = PyTuple(<<0, 0>>)
    /\ items[1].image_path = PyPath("bg.png")
    /\ items[2].image_path = PyPath("bg.png")

\* C13: to_dict reports total_duration = get_total_duration() (the largest
\* end time, 0 for no items) and lists every item once, in non-decreasing
\* start_time order, items of equal start_time in insertion order.
C13_ToDictSortedComplete ==
    op.name = "to_dict" =>
        /\ \A i \in DOMAIN items :
               ret.total_duration >= items[i].start_time + items[i].duration
        /\ \/ items = <<>> /\ ret.total_duration = 0
           \/ \E i \in DOMAIN items :
                  ret.total_duration = items[i].start_time + items[i].duration
        /\ Len(ret.items) = Len(items)
        /\ \A i \in DOMAIN items :
               LET e == ret.items[RankByTime(items, i)]
               IN /\ e.id = items[i].id
                  /\ e.start_time = items[i].start_time
                  /\ e.position = items[i].position
        /\ \A k \in 1..(Len(ret.items) - 1) :
               ret.items[k].start_time <= ret.items[k + 1].start_time

\* to_dict of two items stored later-first: the dict lists the earlier item
\* first and reports the end of the later one.
C13_Witness ==
    /\ op.name = "to_dict"
    /\ Len(items) = 2
    /\ items[1].start_time > items[2].start_time
    /\ ret.items[1].id = items[2].id
    /\ ret.items[2].id = items[1].id
    /\ ret.total_duration = items[1].start_time + items[1].duration
\* The index in the item list of the item with the given id.
IndexOfId(id) == CHOOSE k \in DOMAIN items : items[k].id = id

\* Two clips are on screen at some common time.
ClipsOverlap(a, b) ==
    /\ a.start < b.start + b.duration
    /\ b.start < a.start + a.duration

\* C14: in the full render, of two elements built from items that overlap in
\* time, the one from the item with the higher layer is composited later,
\* whatever layers the items carry.
C14_HigherLayerLater ==
    (op.name = "render_from_timeline" /\ ret.status = "ok") =>
        \A i, j \in DOMAIN ret.video_clips :
            LET a == ret.video_clips[i]
                b == ret.video_clips[j]
            IN (/\ a.item # ""
                /\ b.item # ""
                /\ ClipsOverlap(a, b)
                /\ items[IndexOfId(a.item)].layer
                       < items[IndexOfId(b.item)].layer)
               => i < j

\* The items render_preview has something to draw for, among those active
\* at `time`.
PreviewDrawable(time) ==
    {i \in DOMAIN items :
        /\ items[i].start_time <= time
        /\ time < items[i].start_time + items[i].duration
        /\ \/ /\ items[i].type \in {"background", "character"}
              /\ items[i].image_path # PyNone
           \/ /\ items[i].type = "dialogue"
              /\ items[i].text \notin {PyNone, PyStr("")}}

\* The place of item i among the items at the indices S once they are put in
\* non-decreasing layer order, items of equal layer keeping their order.
RankByLayer(S, i) ==
    1 + Cardinality({j \in S :
            \/ items[j].layer < items[i].layer
            \/ items[j].layer = items[i].layer /\ j < i})

\* C15 as stated: render_preview(t) draws exactly the items of
\* get_items_at(t), in non-decreasing layer order, items of equal layer in
\* insertion order.
C15_AsStated ==
    op.name = "render_preview" =>
        LET active == {i \in DOMAIN items :
                          /\ items[i].start_time <= op.args[1]
                          /\ op.args[1] < items[i].start_time
                                              + items[i].duration}
        IN /\ ret.status = "ok"
           /\ Len(ret.drawn) = Cardinality(active)
           /\ \A i \in active :
                  ret.drawn[RankByLayer(active, i)] = items[i].id

\* C15, amended: render_preview(t) draws, of the items of get_items_at(t),
\* exactly the Backgrounds and Characters that have an image_path and the
\* Dialogues that have a text, in non-decreasing layer order, items of equal
\* layer in insertion order; it raises FileNotFoundError instead when one of
\* those image paths names no file.
C15_DrawableInLayerOrder ==
    op.name = "render_preview" =>
        LET drawable == PreviewDrawable(op.args[1])
        IN IF \E i \in drawable :
                  /\ items[i].type \in {"background", "character"}
                  /\ items[i].image_path.v \notin ExistingFiles
           THEN ret.status = "FileNotFoundError"
           ELSE /\ ret.status = "ok"
                /\ Len(ret.drawn) = Cardinality(drawable)
                /\ \A i \in drawable :
                       ret.drawn[RankByLayer(drawable, i)] = items[i].id

\* A preview of two active items stored higher layer first, both with an
\* existing image: the second stored is drawn first.
C15_Witness ==
    /\ op.name = "render_preview"
    /\ ret.status = "ok"
    /\ Len(items) = 2
    /\ items[1].layer > items[2].layer
    /\ ret.drawn = <<items[2].id, items[1].id>>

\* C17: in the preview and in the full render an item whose media file is
\* absent is skipped, every other item is rendered, and the render does not
\* fail for the absent file.
C17_MissingAssetSkipped ==
    /\ op.name = "render_preview" =>
           /\ ret.status = "ok"
           /\ \A i \in PreviewDrawable(op.args[1]) :
                  (\E k \in DOMAIN ret.drawn : ret.drawn[k] = items[i].id)
                  <=> (items[i].type = "dialogue"
                       \/ items[i].image_path.v \in ExistingFiles)
    /\ op.name = "render_from_timeline" =>
           /\ ret.status # "FileNotFoundError"
           /\ ret.status = "ok" =>
                  \A i \in DOMAIN items :
                      /\ items[i].image_path = PyPath("gone.png") =>
                             \A k \in DOMAIN ret.video_clips :
                                 ret.video_clips[k].item # items[i].id
                      /\ items[i].audio_path = PyPath("gone.wav") =>
                             \A k \in DOMAIN ret.audio_clips :
                                 ret.audio_clips[k].item # items[i].id

\* C18: in the full render the audio element of a BGM item of duration d
\* whose source audio exists has length exactly d, whether the source is
\* shorter than d (repeated int(d/a) + 1 times, then cut), longer (cut) or
\* of length d.
C18_BgmLengthIsDuration ==
    (op.name = "render_from_timeline" /\ ret.status = "ok") =>
        \A i \in DOMAIN items :
            (/\ items[i].type = "bgm"
             /\ items[i].audio_path.v \in ExistingFiles)
            => /\ Cardinality({k \in DOMAIN ret.audio_clips :
                       ret.audio_clips[k].item = items[i].id}) = 1
               /\ \A k \in DOMAIN ret.audio_clips :
                      ret.audio_clips[k].item = items[i].id
                      => ret.audio_clips[k].duration = items[i].duration

\* A full render with a BGM item of 3 seconds over a source of 2 seconds,
\* which does not divide 3: the element lasts 3 seconds.
C18_Witness ==
    /\ op.name = "render_from_timeline"
    /\ ret.status = "ok"
    /\ \E i \in DOMAIN items :
        /\ items[i].type = "bgm"
        /\ items[i].duration = 3
        /\ items[i].audio_path = PyPath(AudioFiles[2])
        /\ \E k \in DOMAIN ret.audio_clips :
            /\ ret.audio_clips[k].item = items[i].id
            /\ ret.audio_clips[k].duration = 3

\* C20: the duration of the full render's output is
\* timeline.get_total_duration(), the largest end time of the items (0 for
\* no items), whatever the lengths of the elements.
C20_OutputDurationIsTotal ==
    (op.name = "render_from_timeline" /\ ret.status = "ok") =>
        /\ \A i \in DOMAIN items :
               ret.duration >= items[i].start_time + items[i].duration
        /\ \/ items = <<>> /\ ret.duration = 0
           \/ \E i \in DOMAIN items :
                  ret.duration = items[i].start_time + items[i].duration

\* A full render whose voice element runs past the end of the last item: the
\* output still lasts get_total_duration().
C20_Witness ==
    /\ op.name = "render_from_timeline"
    /\ ret.status = "ok"
    /\ Len(items) = 2
    /\ \E k \in DOMAIN ret.audio_clips :
           ret.audio_clips[k].start + ret.audio_clips[k].duration > ret.duration
    /\ ret.duration = 1

(***************************************************************************)
(* get_items_at on Timelines filled by the typed adders                    *)
(***************************************************************************)
typed_call(name, its, counter, start_time, duration) ==
    CASE name = "add_dialogue" -> add_dialogue(its, counter, start_time, duration)
      [] name = "add_background" -> add_background(its, counter, start_time, duration)
      [] name = "add_character" -> add_character(its, counter, start_time, duration)
      [] name = "add_bgm" -> add_bgm(its, counter, start_time, duration)
      [] name = "add_sfx" -> add_sfx(its, counter, start_time)

InitTyped == Init

\* A typed adder is called for an item that starts at 0 and lasts TypedDur
\* (add_sfx sets its own duration).
TypedAdd ==
    \E name \in TypedAdders :
        /\ Len(items) < MaxTypedItems
        /\ Added(typed_call(name, items, id_counter, 0, TypedDur))
        /\ Called(name, <<0, TypedDur>>)

NextTyped ==
    \/ TypedAdd
    \/ GetItemsAt
    \/ SortByLayer

SpecTyped == InitTyped /\ [][NextTyped]_vars

TypesOf(seq) == [k \in DOMAIN seq |-> seq[k].type]

\* get_items_at(1) on a Timeline to which a Dialogue, a Character and a
\* Background, all active at 1, were added in that order.
C16_Scenario ==
    /\ op.name = "get_items_at"
    /\ op.args = <<1>>
    /\ TypesOf(items) = <<"dialogue", "character", "background">>
    /\ \A i \in DOMAIN items :
           items[i].start_time <= 1 /\ 1 < items[i].start_time + items[i].duration

\* C16 as stated: in that scenario get_items_at(1.0) returns the three items
\* sorted by layer ascending: Background, Character, Dialogue.
C16_AsStated ==
    C16_Scenario => TypesOf(ret) = <<"background", "character", "dialogue">>

\* C16, amended: in that scenario get_items_at(1.0) returns the three items
\* in insertion order, Dialogue (layer 10), Character (layer 5), Background
\* (layer 0); sorting that list by layer, as render_preview does, gives
\* Background, Character, Dialogue.
C16_InsertionOrder ==
    C16_Scenario =>
        /\ ret = items
        /\ [k \in DOMAIN ret |-> ret[k].layer] = <<10, 5, 0>>
        /\ TypesOf(sort_by_layer(ret)) = <<"background", "character", "dialogue">>

\* The scenario happened and all three items were returned.
C16_Witness ==
    /\ C16_Scenario
    /\ Len(ret) = 3

\* C19: in the generate command a render (preview or full) starts only after
\* the availability check succeeded and every line of the script was
\* synthesised; when the service is unavailable the command exits with a
\* failure, no item added to a Timeline and no render started.
C19_RenderOnlyAfterVoices ==
    /\ run.render # "none" =>
           /\ run.available = "TRUE"
           /\ run.line_index = run.lines
           /\ Cardinality({i \in DOMAIN items :
                  /\ items[i].type = "dialogue"
                  /\ items[i].audio_path.v \in ExistingFiles}) = run.lines
    /\ run.available = "FALSE" =>
           /\ run.pc = "exit"
           /\ run.exit_code = 1
           /\ items = <<>>
           /\ run.render = "none"

\* A preview was made after the availability check succeeded and both lines
\* of a script of two lines were synthesised.
C19_Witness ==
    /\ run.render = "preview"
    /\ run.pc = "done"
    /\ run.available = "TRUE"
    /\ run.lines = 2
    /\ run.line_index = 2

\* C21: in a full render without scrolling text, a Timeline with no
\* Background item gets one solid-color element of length
\* get_total_duration() as the bottom-most visual element, and a Timeline
\* with at least one Background item gets no such element.
C21_FallbackBackground ==
    (/\ op.name = "render_from_timeline"
     /\ op.args = <<PyNone>>
     /\ ret.status = "ok") =>
        LET fallback == {k \in DOMAIN ret.video_clips :
                            ret.video_clips[k].kind = "color"}
        IN IF \E i \in DOMAIN items : items[i].type = "background"
           THEN fallback = {}
           ELSE /\ fallback = {1}
                /\ ret.video_clips[1].start = 0
                /\ \A i \in DOMAIN items :
                       ret.video_clips[1].duration
                           >= items[i].start_time + items[i].duration
                /\ \/ items = <<>> /\ ret.video_clips[1].duration = 0
                   \/ \E i \in DOMAIN items :
                          ret.video_clips[1].duration
                              = items[i].start_time + items[i].duration

\* A full render without scrolling text of a Timeline whose only items are
\* two Dialogues: the fallback lies under the two subtitles and lasts until
\* the later one ends.
C21_Witness ==
    /\ op.name = "render_from_timeline"
    /\ op.args = <<PyNone>>
    /\ ret.status = "ok"
    /\ Len(items) = 2
    /\ Len(ret.video_clips) = 3
    /\ ret.video_clips[1].kind = "color"
    /\ ret.video_clips[1].duration = 2
    /\ ret.video_clips[2].kind = "subtitle"

\* C22: a Character item carries the horizontal-flip flag handed to
\* add_character, and the full render builds for it an element mirrored as
\* the flag says.
C22_FlipKeptAndHonoured ==
    /\ \A i \in DOMAIN items :
           items[i].type = "character" => HasAttr(items[i], "flip_horizontal")
    /\ run.render = "full" =>
           /\ ret.status = "ok"
           /\ \A i \in DOMAIN items :
                  items[i].type = "character" =>
                      \E k \in DOMAIN ret.video_clips :
                          /\ ret.video_clips[k].item = items[i].id
                          /\ ret.video_clips[k].flip_horizontal
                                 = items[i].flip_horizontal

\* C23: an item created by a typed adder has the default layer of its type,
\* Background 0, BGM 0, SFX 1, Character 5, Dialogue 10; so among such items
\* every Dialogue has a layer strictly greater than every other item.
C23_DefaultLayers ==
    /\ \A i \in DOMAIN items :
           items[i].layer =
               CASE items[i].type = "background" -> 0
                 [] items[i].type = "bgm" -> 0
                 [] items[i].type = "sfx" -> 1
                 [] items[i].type = "character" -> 5
                 [] items[i].type = "dialogue" -> 10
    /\ \A i, j \in DOMAIN items :
           (items[i].type = "dialogue" /\ items[j].type # "dialogue")
               => items[i].layer > items[j].layer

\* add_sfx has just added the third item of a Timeline, after add_character
\* and add_dialogue.
C23_Witness ==
    /\ op.name = "add_sfx"
    /\ Len(items) = 3
    /\ items[1].type = "character" /\ items[1].layer = 5
    /\ items[2].type = "dialogue" /\ items[2].layer = 10
    /\ items[3].type = "sfx" /\ items[3].layer = 1

(***************************************************************************)
(* add_item, handed items whose fades may exceed their duration            *)
(***************************************************************************)
FadedItem(id, fade_in, fade_out) ==
    [id |-> id, type |-> CallerType, start_time |-> 0, duration |-> 1,
     layer |-> CallerLayer, fade_in |-> fade_in, fade_out |-> fade_out]

AddFadedItem ==
    \E id \in CallerIds, fade_in \in 0..MaxFade, fade_out \in 0..MaxFade :
        /\ Len(items) < MaxAddItems
        /\ Added(add_item(items, id_counter, FadedItem(id, fade_in, fade_out)))
        /\ Called("add_item", <<FadedItem(id, fade_in, fade_out)>>)

NextAdd == AddFadedItem

SpecAdd == Init /\ [][NextAdd]_vars

\* C24: add_item(item) appends the item as the last element and returns it;
\* an empty id is replaced by a generated one and the counter advances by
\* one, a non-empty id and the counter are kept; the items stored before,
\* their order and every other field of the added item stay as they were,
\* fades longer than the duration included.
C24_AddItemFrame ==
    [][op'.name = "add_item" =>
          LET item == op'.args[1]
              n == Len(items)
          IN /\ Len(items') = n + 1
             /\ \A k \in 1..n : items'[k] = items[k]
             /\ ret' = items'[n + 1]
             /\ DOMAIN ret' = DOMAIN item
             /\ \A f \in DOMAIN item \ {"id"} : ret'[f] = item[f]
             /\ IF item.id = ""
                THEN /\ id_counter' = id_counter + 1
                     /\ ret'.id = FormatId(item.type, id_counter + 1)
                ELSE /\ id_counter' = id_counter
                     /\ ret'.id = item.id]_vars

\* add_item stored, behind an item with a generated id, an item with the
\* caller's id "a" whose fades add up to more than its duration.
C24_Witness ==
    /\ op.name = "add_item"
    /\ Len(items) = 2
    /\ items[1].id = FormatId(CallerType, 1)
    /\ ret = items[2]
    /\ ret.id = "a"
    /\ ret.fade_in + ret.fade_out > ret.duration
    /\ id_counter = 1

\* C25: in the full render every element, visual or audio, built from an
\* item carries a fade-in and a fade-out of the lengths the item gives
\* (none for 0), whatever the item's type.
C25_FadesHonoured ==
    (op.name = "render_from_timeline" /\ ret.status = "ok") =>
        /\ \A k \in DOMAIN ret.video_clips :
               ret.video_clips[k].item # "" =>
                   LET item == items[IndexOfId(ret.video_clips[k].item)]
                   IN /\ ret.video_clips[k].fade_in = item.fade_in
                      /\ ret.video_clips[k].fade_out = item.fade_out
        /\ \A k \in DOMAIN ret.audio_clips :
               LET item == items[IndexOfId(ret.audio_clips[k].item)]
               IN /\ ret.audio_clips[k].fade_in = item.fade_in
                  /\ ret.audio_clips[k].fade_out = item.fade_out

\* C26: from_dict returns a Timeline that holds every entry of the
\* serialized list, in the listed order, or fails when an entry is
\* malformed; it returns no Timeline that holds part of the entries.
C26_AllOrError ==
    op.name = "from_dict" =>
        LET listed == op.args[1].items
        IN IF \E k \in DOMAIN listed : "duration" \notin DOMAIN listed[k]
           THEN ret.status = "ValidationError"
           ELSE /\ ret.status = "ok"
                /\ Len(items) = Len(listed)
                /\ \A k \in DOMAIN listed :
                       /\ items[k].id = listed[k].id
                       /\ items[k].start_time = listed[k].start_time
                       /\ items[k].duration = listed[k].duration

\* from_dict of two entries, the second without duration, failed.
C26_Witness ==
    /\ op.name = "from_dict"
    /\ Len(op.args[1].items) = 2
    /\ "duration" \in DOMAIN op.args[1].items[1]
    /\ "duration" \notin DOMAIN op.args[1].items[2]
    /\ ret = Raised("ValidationError")

\* C27: for every item B, get_items_in_range(B.start_time, B.end_time)
\* returns exactly the items A of the Timeline with A.overlaps(B).
C27_RangeIsOverlaps ==
    op.name = "get_items_in_range" =>
        LET B == TimelineItem("b", CallerType, op.args[1],
                              op.args[2] - op.args[1], CallerLayer)
        IN ListsInOrder(ret, {i \in DOMAIN items : overlaps(items[i], B)})

\* get_items_in_range over the span of an item of positive duration returned
\* the second of three items only.
C27_Witness ==
    /\ op.name = "get_items_in_range"
    /\ op.args[1] < op.args[2]
    /\ Len(items) = 3
    /\ ret = <<items[2]>>
    /\ overlaps(items[2], items[2])
    /\ items[2].start_time = op.args[1]
    /\ items[2].start_time + items[2].duration = op.args[2]

\* The Dialogue items of the Timeline, in insertion order.
Dialogues == SelectSeq(items, LAMBDA item : item.type = "dialogue")

\* The durations of the first k Dialogue items and the pauses after them.
RECURSIVE TimeBefore(_)
TimeBefore(k) ==
    IF k = 0 THEN 0
    ELSE TimeBefore(k - 1) + Dialogues[k].duration + run.pauses[k]

\* C28: in the generate command every Dialogue item starts at the sum of the
\* durations and pauses of the lines before it, so start times do not
\* decrease, no two Dialogue items overlap and get_items_at(t) holds at most
\* one Dialogue item for every t.
C28_DialoguesInSequence ==
    /\ Len(Dialogues) = run.line_index
    /\ \A k \in DOMAIN Dialogues :
           Dialogues[k].start_time = TimeBefore(k - 1)
    /\ \A k, l \in DOMAIN Dialogues :
           k < l => /\ Dialogues[k].start_time <= Dialogues[l].start_time
                    /\ ~overlaps(Dialogues[k], Dialogues[l])
    /\ \A t \in 0..run.current_time :
           Cardinality({i \in DOMAIN items :
               /\ items[i].type = "dialogue"
               /\ items[i].start_time <= t
               /\ t < items[i].start_time + items[i].duration}) <= 1

\* Two lines are done, the first of 2 seconds with a pause of 1: the second
\* Dialogue item starts at 3.
C28_Witness ==
    /\ run.line_index = 2
    /\ Len(Dialogues) = 2
    /\ Dialogues[1].duration = 2
    /\ run.pauses[1] = 1
    /\ Dialogues[2].start_time = 3

(***************************************************************************)
(* The read-only operations, applied to bounded Timelines                  *)
(***************************************************************************)
get_items_by_character(its, character) ==
    SelectSeq(its, LAMBDA item : item.character = character)

\* Backgrounds with an image and Dialogues of a character with a text.
FrameItems ==
    {MediaItem("background", s, 1, l, PyPath("pic.png"), PyNone, PyNone, 0, 0)
         @@ [character |-> PyNone] :
        s \in RenderStarts, l \in RenderLayers}
    \cup
    {MediaItem("dialogue", s, 1, l, PyNone, PyNone, PyStr("hi"), 0, 0)
         @@ [character |-> PyStr("reimu")] :
        s \in RenderStarts, l \in RenderLayers}

InitFrame == \E listed \in ListsOf(FrameItems, MaxFrameItems) : Built(listed)

GetItemsByType ==
    \E item_type \in ItemType :
        /\ ret' = get_items_by_type(items, item_type)
        /\ Called("get_items_by_type", <<item_type>>)
        /\ UNCHANGED <<items, id_counter, generated>>

GetItemsByCharacter ==
    \E character \in {PyStr("reimu"), PyStr("marisa")} :
        /\ ret' = get_items_by_character(items, character)
        /\ Called("get_items_by_character", <<character>>)
        /\ UNCHANGED <<items, id_counter, generated>>

NextFrame ==
    \/ GetItemsAt
    \/ GetItemsInRange
    \/ GetItemsByType
    \/ GetItemsByCharacter
    \/ GetTotalDuration
    \/ ToDict
    \/ RenderPreview

SpecFrame == InitFrame /\ [][NextFrame]_vars

ReadOnly ==
    {"get_items_at", "get_items_in_range", "get_items_by_type",
     "get_items_by_character", "get_total_duration", "to_dict",
     "render_preview"}

\* C29: get_items_at, get_items_in_range, get_items_by_type,
\* get_items_by_character, get_total_duration, to_dict and render_preview
\* leave the item list, every item's fields and the id counter unchanged.
C29_ReadOnlyOperations ==
    [][op'.name \in ReadOnly =>
          /\ items' = items
          /\ id_counter' = id_counter]_vars

\* render_preview drew the Background stored second under the Dialogue
\* stored first, and the Timeline still lists the Dialogue first.
C29_Witness ==
    /\ op.name = "render_preview"
    /\ Len(items) = 2
    /\ items[1].type = "dialogue" /\ items[1].layer = 10
    /\ items[2].type = "background" /\ items[2].layer = 0
    /\ ret.status = "ok"
    /\ ret.drawn = <<items[2].id, items[1].id>>

\* C30: from_dict(to_dict(T)) stores its items in ascending start_time
\* order, not in T's insertion order, and to_dict of it equals to_dict(T).
C30_RoundTripSortsAndIsStable ==
    [][(op'.name = "from_dict" /\ op'.args = <<>>) =>
          /\ \A k \in 1..(Len(items') - 1) :
                 items'[k].start_time <= items'[k + 1].start_time
          /\ \A i \in DOMAIN items :
                 items'[RankByTime(items, i)] = items[i]
          /\ to_dict(items') = to_dict(items)]_vars

\* A saved and loaded Timeline whose first item is the one that was added
\* second, the earlier of the two.
C30_Witness ==
    /\ op.name = "from_dict"
    /\ op.args = <<>>
    /\ Len(items) = 2
    /\ items[1].id = FormatId("background", 2)
    /\ items[2].id = FormatId("background", 1)
    /\ items[1].start_time < items[2].start_time

=============================================================================
